---- MODULE Spec2Model ----
(***************************************************************************)
(* A model of the go-sip-ua B2BUA: the in-memory contact registry          *)
(* (MemoryRegistry), the REGISTER and connection-error handlers, and the   *)
(* call bridge (InviteStateHandler, findCall, removeCall).                 *)
(*                                                                         *)
(* Five specifications share the state:                                    *)
(*   SpecRegistry  the registry driven by single calls of its methods,     *)
(*                 each atomic (the mutex is held for the whole method);   *)
(*   SpecLin       the registry's methods run by concurrent callers, step  *)
(*                 by step, with the mutex modelled explicitly;            *)
(*   Spec          the B2BUA: REGISTER requests, connection errors and leg *)
(*                 state changes, terminal events handled by concurrent    *)
(*                 callbacks that read and write b.calls without a lock;   *)
(*   SpecFork      the InviteReceived handler run statement by statement   *)
(*                 over the instance map GetContacts hands it, while       *)
(*                 REGISTER requests and connection errors are handled;    *)
(*   SpecCalls     b.calls as a Go slice, header and array, appended to    *)
(*                 and spliced by concurrent callbacks.                    *)
(***************************************************************************)
EXTENDS Integers, Sequences, FiniteSets, TLC

\* ------------------------------------------------------------------ bounds
NumHosts == 2
NumSources == 2
NumRegSources == 3
MaxExpires == 1
MaxALegs == 2
MaxOrig == 3
MaxEvents == 5
NumCallers == 2
MaxConc == 3
MaxTerm == 2

\* The user parts of the accounts main() adds.
UserParts == {100, 200}
Hosts == 1..NumHosts
\* A sip.Uri as far as Equals() and User() read it: user part and host.
Uris == [user : UserParts, host : Hosts]
\* request.Source(): the address a request came from, the key of an instance.
Sources == 1..NumSources
\* The sources of the instances the registry's methods are called with when
\* the registry is driven on its own.
RegSources == 1..NumRegSources
\* A ContactInstance as far as the registry and the bridge read it.
Instances == [Source : RegSources, RegExpires : 0..MaxExpires]

NoUri == [user |-> 0, host |-> 0]

\* ---------------------------------------------------------------- helpers
\* The set of all orders (sequences without repetition) of the finite set S:
\* the orders in which a Go `range` may visit the keys of a map.
RECURSIVE Orders(_)
Orders(S) ==
    IF S = {} THEN {<<>>}
    ELSE UNION {{<<x>> \o o : o \in Orders(S \ {x})} : x \in S}

\* A map without key k (Go's delete(m, k)).
MapDelete(m, k) == [x \in DOMAIN m \ {k} |-> m[x]]

\* A map with m[k] = v (Go's m[k] = v).
MapPut(m, k, v) == [x \in DOMAIN m \cup {k} |-> IF x = k THEN v ELSE m[x]]

EmptyMap == [x \in {} |-> 0]

\* -------------------------------------------------------------------- state
VARIABLES
    aors,       \* mr.aors: sip.Uri -> (Source -> ContactInstance)
    calls,      \* b.calls: the sequence of B2BCall {src, dest}
    known,      \* the A-leg sessions the session layer has announced
    origin,     \* every ua.Invite call so far, in order: a B-leg per success
    sent,       \* per session, what the bridge asked the session layer to send
    th,         \* per session, the callback handling a terminal event on it
    nev,        \* how many requests and events the stack has delivered
    last,       \* the operation that acted last, with its arguments and result
    lock,       \* mr.mutex: 0 when free, else the caller holding it
    rt,         \* the concurrent callers of the registry: the registry when
                \* they were started (base) and each caller's call and place
    inv,        \* an InviteReceived handler run statement by statement: its
                \* place, and the instance map it was handed and ranges over
    mem         \* b.calls as the slice it is: the arrays allocated for it
                \* and the slice header (array, length) the field holds

vars == <<aors, calls, known, origin, sent, th, nev, last, lock, rt, inv, mem>>

\* ---------------------------------------------------------------- registry
\* findInstances as it would be if it compared keys with Equals().
findInstancesByUri(reg, aor) == {k \in DOMAIN reg : k = aor}

\* findInstances: the keys whose user part equals aor's; the loop returns the
\* map of the first one the range visits, so any of them.
findInstances(reg, aor) == {k \in DOMAIN reg : k.user = aor.user}

\* The outcomes of AddAor(aor, instance) on registry reg.
AddAor(reg, aor, instance) ==
    IF findInstances(reg, aor) # {}
    THEN {[reg |-> [reg EXCEPT ![k] = MapPut(@, instance.Source, instance)],
           ret |-> "nil"] : k \in findInstances(reg, aor)}
    ELSE {[reg |-> MapPut(reg, aor, MapPut(EmptyMap, instance.Source, instance)),
           ret |-> "nil"]}

\* RemoveAor(aor): deletes the key that Equals(aor), a full-URI comparison.
RemoveAor(reg, aor) ==
    {[reg |-> IF aor \in DOMAIN reg THEN MapDelete(reg, aor) ELSE reg,
      ret |-> "nil"]}

\* UpdateContact(aor, instance).
UpdateContact(reg, aor, instance) ==
    IF findInstances(reg, aor) = {}
    THEN {[reg |-> reg, ret |-> "err"]}
    ELSE {[reg |-> [reg EXCEPT ![k] = MapPut(@, instance.Source, instance)],
           ret |-> "nil"] : k \in findInstances(reg, aor)}

\* The key RemoveContact deletes once the instance map is empty: the key that
\* Equals(aor), if there is one.
EmptiedKey(reg, aor) == IF aor \in DOMAIN reg THEN {aor} ELSE {}

\* RemoveContact(aor, instance): the entry is found by user part, its
\* instance deleted by source; when the map is left empty the key that
\* Equals(aor) is deleted.
RemoveContact(reg, aor, instance) ==
    IF findInstances(reg, aor) = {}
    THEN {[reg |-> reg, ret |-> "err"]}
    ELSE {LET r1 == [reg EXCEPT ![k] = MapDelete(@, instance.Source)]
          IN  [reg |-> IF DOMAIN r1[k] = {}
                       THEN [x \in DOMAIN r1 \ EmptiedKey(r1, aor) |-> r1[x]]
                       ELSE r1,
               ret |-> "nil"] : k \in findInstances(reg, aor)}

\* HandleConnectionError's loop over mr.aors in the order `order`, from its
\* i-th key on: the instance keyed by source is deleted; an entry left (or
\* found) empty is deleted and the loop breaks.
RECURSIVE Scan(_, _, _, _, _)
Scan(reg, order, i, source, result) ==
    IF i > Len(order) THEN [reg |-> reg, ret |-> result]
    ELSE LET aor == order[i]
             hit == source \in DOMAIN reg[aor]
             cis == IF hit THEN MapDelete(reg[aor], source) ELSE reg[aor]
             res == result \/ hit
         IN  IF DOMAIN cis = {}
             THEN [reg |-> MapDelete(reg, aor), ret |-> res]
             ELSE Scan([reg EXCEPT ![aor] = cis], order, i + 1, source, res)

\* The outcomes of HandleConnectionError(connError) with connError.Source =
\* source: one per order in which the range may visit the map.
HandleConnectionError(reg, source) ==
    {Scan(reg, order, 1, source, FALSE) : order \in Orders(DOMAIN reg)}

\* GetContacts(aor): a pointer to the instance map of the entry found (here
\* the entry's key) and true, or nil and false.
GetContacts(reg, aor) ==
    IF findInstances(reg, aor) = {}
    THEN {[key |-> NoUri, found |-> FALSE]}
    ELSE {[key |-> k, found |-> TRUE] : k \in findInstances(reg, aor)}

\* ------------------------------------------------------------------ sessions
\* A session handle (*session.Session, compared by identity): the inbound
\* sessions (A-legs) the session layer announces are -1, -2, ...; the
\* outbound one the j-th call of ua.Invite returns (B-leg) is j.
ALeg(i) == 0 - i
BLeg(j) == j
ALegs == {ALeg(i) : i \in 1..MaxALegs}
BLegs == {BLeg(j) : j \in 1..MaxOrig}
Sessions == ALegs \cup BLegs

NoSession == 0

\* sess.Direction().
Direction(s) == IF s < 0 THEN "Incoming" ELSE "Outgoing"
NoCall == [src |-> NoSession, dest |-> NoSession]

\* The sessions that exist: announced A-legs and originated B-legs.
Live == known \cup {BLeg(j) : j \in {i \in 1..Len(origin) : origin[i].ok}}

\* sess.RemoteSdp(): the session description the session's peer sent. Each
\* session has its own, named here by the session it belongs to.
RemoteSdp(s) == s

\* What the bridge asks the session layer to do on a leg: the method called,
\* its status code (0 when it has none) and `of`, the session whose
\* description is passed (ProvideAnswer) or whose event made the bridge call
\* (End), NoSession otherwise.
Msg(op, code, of) == [op |-> op, code |-> code, of |-> of]

\* The record of the operation that acted last.
Op(op, aor, src, sess, code, ret) ==
    [op |-> op, aor |-> aor, src |-> src, sess |-> sess, code |-> code,
     ret |-> ret]

\* An idle callback.
Idle == [pc |-> "idle", call |-> NoCall, idx |-> 0, removed |-> NoCall]

\* The callback for a terminal event on sess.
Th(s) == IF s \in DOMAIN th THEN th[s] ELSE Idle

\* A panic in any handler or callback ends the process.
Panicked ==
    \/ \E s \in DOMAIN th : th[s].pc = "panic"
    \/ last.ret = "panic"

\* ------------------------------------------------------------------- calls
\* The indices of the calls that have sess as a leg.
Matching(cs, sess) ==
    {i \in 1..Len(cs) : cs[i].src = sess \/ cs[i].dest = sess}

Min(S) == CHOOSE x \in S : \A y \in S : x <= y

\* findCall(sess): the first call with sess as its source or destination.
findCall(cs, sess) ==
    IF Matching(cs, sess) = {} THEN NoCall ELSE cs[Min(Matching(cs, sess))]

\* The scan of removeCall(sess): the index of the first call with sess as a
\* leg, 0 when the range ends without one.
removeIndex(cs, sess) ==
    IF Matching(cs, sess) = {} THEN 0 ELSE Min(Matching(cs, sess))

\* append(b.calls[:idx], b.calls[idx+1:]...), idx counted from 1.
Splice(cs, idx) == SubSeq(cs, 1, idx - 1) \o SubSeq(cs, idx + 1, Len(cs))

\* -------------------------------------------------------- B2BUA: registrar
\* The instance map an InviteReceived handler was handed by GetContacts is the
\* registry's own map, not a copy. What becomes of the handler h's reference
\* when a registry method takes the registry from reg to reg2: the map is
\* written in place, so the handler sees the entries as they are now; an
\* entry deleted from the map is no longer one the range has yet to produce
\* or has produced; once the key is deleted from mr.aors the handler is left
\* holding the map, which is empty and which no method will write again.
Held(h, reg, reg2) ==
    IF h.pc \notin {"trying", "range"} \/ h.orphan THEN h
    ELSE IF h.ref \notin DOMAIN reg2
         THEN [h EXCEPT !.orphan = TRUE, !.start = {}, !.seen = {}]
         ELSE [h EXCEPT !.start = @ \cap DOMAIN reg2[h.ref],
                        !.seen = @ \cap DOMAIN reg2[h.ref]]

\* NewContactInstanceForRequest reads the first User-Agent header of the
\* request: request.GetHeaders("User-Agent")[0] is an index out of range, a
\* panic, when the request has none (agent = FALSE).
NewContactInstanceForRequest(source, expires, agent) ==
    IF agent
    THEN {[Source |-> source, RegExpires |-> IF expires > 0 THEN expires ELSE 0]}
    ELSE {}

\* handleRegister as it would be if the error RemoveContact returns were
\* answered with 404.
handleRegisterChecked(aor, source, expires, agent) ==
    /\ ~Panicked
    /\ nev < MaxEvents
    /\ IF NewContactInstanceForRequest(source, expires, agent) = {}
       THEN /\ aors' = aors
            /\ last' = Op("REGISTER", aor, source, NoSession, 0, "panic")
       ELSE \E instance \in NewContactInstanceForRequest(source, expires, agent) :
            IF expires > 0
            THEN \E o \in AddAor(aors, aor, instance) :
                    /\ aors' = o.reg
                    /\ last' = Op("REGISTER", aor, source, NoSession, 200, "Registered")
            ELSE \E o \in RemoveContact(aors, aor, instance) :
                    /\ aors' = o.reg
                    /\ last' = IF o.ret = "err"
                               THEN Op("REGISTER", aor, source, NoSession, 404, "Not Found")
                               ELSE Op("REGISTER", aor, source, NoSession, 200, "UnRegistered")
    /\ nev' = nev + 1
    /\ inv' = Held(inv, aors, aors')
    /\ UNCHANGED <<calls, known, origin, sent, th, lock, rt, mem>>

\* handleRegister: a REGISTER for aor from source; expires is the value of its
\* Expires header, -1 when it has none; agent tells whether it has a
\* User-Agent header. The response is 200 with the reason; a panic leaves the
\* request unanswered.
handleRegister(aor, source, expires, agent) ==
    /\ ~Panicked
    /\ nev < MaxEvents
    /\ IF NewContactInstanceForRequest(source, expires, agent) = {}
       THEN /\ aors' = aors
            /\ last' = Op("REGISTER", aor, source, NoSession, 0, "panic")
       ELSE \E instance \in NewContactInstanceForRequest(source, expires, agent) :
            IF expires > 0
            THEN \E o \in AddAor(aors, aor, instance) :
                    /\ aors' = o.reg
                    /\ last' = Op("REGISTER", aor, source, NoSession, 200, "Registered")
            ELSE \E o \in RemoveContact(aors, aor, instance) :
                    /\ aors' = o.reg
                    /\ last' = Op("REGISTER", aor, source, NoSession, 200, "UnRegistered")
    /\ nev' = nev + 1
    /\ inv' = Held(inv, aors, aors')
    /\ UNCHANGED <<calls, known, origin, sent, th, lock, rt, mem>>

\* handleConnectionError: the transport lost the connection from source.
handleConnectionError(source) ==
    /\ ~Panicked
    /\ nev < MaxEvents
    /\ \E o \in HandleConnectionError(aors, source) :
          /\ aors' = o.reg
          /\ last' = Op("ConnectionError", NoUri, source, NoSession, 0,
                        IF o.ret THEN "true" ELSE "false")
    /\ nev' = nev + 1
    /\ inv' = Held(inv, aors, aors')
    /\ UNCHANGED <<calls, known, origin, sent, th, lock, rt, mem>>

\* ----------------------------------------------------------- B2BUA: bridge
\* doInvite for the contacts in `order`, from the i-th on: ua.Invite is
\* called for each; it succeeds for the sources in oks, and each B-leg it
\* returns is appended to b.calls with sess as the source.
RECURSIVE Fork(_, _, _, _, _)
\* Fork as it would be if doInvite's success path ended the handler: only the
\* first contact visited is invited.
ForkFirstOnly(st, sess, order, i, oks) ==
    IF i > Len(order) \/ i > 1 THEN st
    ELSE LET ok == order[i] \in oks
             og == Append(st.origin, [src |-> sess, source |-> order[i], ok |-> ok])
             cs == IF ok
                   THEN Append(st.calls, [src |-> sess, dest |-> BLeg(Len(og))])
                   ELSE st.calls
         IN  [origin |-> og, calls |-> cs]

\* Fork as it would be if a failed ua.Invite ended the loop over the contacts.
RECURSIVE ForkUntilError(_, _, _, _, _)
ForkUntilError(st, sess, order, i, oks) ==
    IF i > Len(order) THEN st
    ELSE LET ok == order[i] \in oks
             og == Append(st.origin, [src |-> sess, source |-> order[i], ok |-> ok])
         IN  IF ok
             THEN ForkUntilError(
                     [origin |-> og,
                      calls |-> Append(st.calls, [src |-> sess, dest |-> BLeg(Len(og))])],
                     sess, order, i + 1, oks)
             ELSE [origin |-> og, calls |-> st.calls]

Fork(st, sess, order, i, oks) ==
    IF i > Len(order) THEN st
    ELSE LET ok == order[i] \in oks
             og == Append(st.origin, [src |-> sess, source |-> order[i], ok |-> ok])
             cs == IF ok
                   THEN Append(st.calls, [src |-> sess, dest |-> BLeg(Len(og))])
                   ELSE st.calls
         IN  Fork([origin |-> og, calls |-> cs], sess, order, i + 1, oks)

\* The response the handler sends on the A-leg when GetContacts found nothing.
NotFound == Msg("Reject", 404, NoSession)

\* InviteStateHandler, case InviteReceived: a new inbound session sess with
\* request URI `called`.
InviteReceived(sess, called) ==
    /\ ~Panicked
    /\ nev < MaxEvents
    /\ sess \in ALegs \ known
    /\ sess = ALeg(Cardinality(known) + 1)
    /\ \E g \in GetContacts(aors, called) :
          IF g.found
          THEN \E order \in Orders(DOMAIN aors[g.key]) :
               \E oks \in SUBSET (DOMAIN aors[g.key]) :
                  LET st == Fork([origin |-> origin, calls |-> calls],
                                 sess, order, 1, oks)
                  IN  /\ Len(st.origin) <= MaxOrig
                      /\ sent' = [sent EXCEPT ![sess] =
                                     Append(@, Msg("Provisional", 100, NoSession))]
                      /\ origin' = st.origin
                      /\ calls' = st.calls
          ELSE /\ sent' = [sent EXCEPT ![sess] = Append(@, NotFound)]
               /\ UNCHANGED <<origin, calls>>
    /\ known' = known \cup {sess}
    /\ nev' = nev + 1
    /\ last' = Op("InviteReceived", called, 0, sess, 0, "")
    /\ UNCHANGED <<aors, th, lock, rt, inv, mem>>

\* InviteStateHandler, case ReInviteReceived.
ReInviteReceived(sess) ==
    /\ ~Panicked
    /\ nev < MaxEvents
    /\ sess \in Live
    /\ sent' = IF Direction(sess) = "Incoming"
               THEN [sent EXCEPT ![sess] = Append(@, Msg("Accept", 200, NoSession))]
               ELSE sent
    /\ nev' = nev + 1
    /\ last' = Op("ReInviteReceived", NoUri, 0, sess, 0, "")
    /\ UNCHANGED <<aors, calls, known, origin, th, lock, rt, inv, mem>>

\* AnswerFrom as it would be if the answer were read from call.src.
AnswerFromSource(call) == call.src

\* The leg whose description the bridge applies to the A-leg as the answer.
AnswerFrom(call) == call.dest

\* Relays as it would be without the test call.dest == sess.
RelaysAnyLeg(call, sess) == call # NoCall

\* Whether a relaying case acts on the call findCall returned.
Relays(call, sess) == call # NoCall /\ call.dest = sess

\* InviteStateHandler, case EarlyMedia / Provisional: resp carries `code`.
Provisional(sess, state, code) ==
    /\ ~Panicked
    /\ nev < MaxEvents
    /\ sess \in Live
    /\ LET call == findCall(calls, sess)
       IN  sent' = IF Relays(call, sess)
                   THEN [sent EXCEPT ![call.src] = @ \o
                          <<Msg("ProvideAnswer", 0, RemoteSdp(AnswerFrom(call))),
                            Msg("Provisional", code, NoSession)>>]
                   ELSE sent
    /\ nev' = nev + 1
    /\ last' = Op(state, NoUri, 0, sess, code, "")
    /\ UNCHANGED <<aors, calls, known, origin, th, lock, rt, inv, mem>>

\* InviteStateHandler, case Confirmed.
Confirmed(sess) ==
    /\ ~Panicked
    /\ nev < MaxEvents
    /\ sess \in Live
    /\ LET call == findCall(calls, sess)
       IN  sent' = IF Relays(call, sess)
                   THEN [sent EXCEPT ![call.src] = @ \o
                          <<Msg("ProvideAnswer", 0, RemoteSdp(AnswerFrom(call))),
                            Msg("Accept", 200, NoSession)>>]
                   ELSE sent
    /\ nev' = nev + 1
    /\ last' = Op("Confirmed", NoUri, 0, sess, 0, "")
    /\ UNCHANGED <<aors, calls, known, origin, th, lock, rt, inv, mem>>

\* The leg a terminal event on sess makes the bridge end: the other leg of
\* the call findCall returned.
OtherLeg(call, sess) ==
    IF call.src = sess THEN call.dest
    ELSE IF call.dest = sess THEN call.src
    ELSE NoSession

\* InviteStateHandler, case Failure / Canceled / Terminated, up to the call
\* of removeCall: findCall, then End() on the other leg of the call found.
\* The callback runs on the goroutine the event was delivered on; b.calls is
\* read here and in removeCall with no lock held.
Terminal(sess, state) ==
    /\ ~Panicked
    /\ nev < MaxEvents
    /\ sess \in Live
    /\ Th(sess).pc \in {"idle", "done"}
    /\ LET call == findCall(calls, sess)
       IN  /\ sent' = IF call # NoCall
                      THEN [sent EXCEPT ![OtherLeg(call, sess)] =
                               Append(@, Msg("End", 0, sess))]
                      ELSE sent
           /\ th' = MapPut(th, sess, [pc |-> "remove", call |-> call,
                                       idx |-> 0, removed |-> NoCall])
    /\ nev' = nev + 1
    /\ last' = Op(state, NoUri, 0, sess, 0, "")
    /\ UNCHANGED <<aors, calls, known, origin, lock, rt, inv, mem>>

\* removeCall(sess), the range over b.calls: the index of the first call with
\* sess as a leg; the function returns when the range ends without one.
RemoveScan(sess) ==
    /\ ~Panicked
    /\ Th(sess).pc = "remove"
    /\ LET idx == removeIndex(calls, sess)
       IN  th' = [th EXCEPT ![sess].idx = idx,
                            ![sess].pc = IF idx = 0 THEN "done" ELSE "splice"]
    /\ last' = Op("removeCall.range", NoUri, 0, sess, 0, "")
    /\ UNCHANGED <<aors, calls, known, origin, sent, nev, lock, rt, inv, mem>>

\* removeCall(sess), the assignment b.calls = append(b.calls[:idx],
\* b.calls[idx+1:]...): b.calls is read again here, so it may have changed
\* since the range found idx; b.calls[idx+1:] panics when b.calls has become
\* shorter than idx+1 (idx+1 there is idx here, counted from 1).
RemoveSplice(sess) ==
    /\ ~Panicked
    /\ Th(sess).pc = "splice"
    /\ IF th[sess].idx <= Len(calls)
       THEN /\ calls' = Splice(calls, th[sess].idx)
            /\ th' = [th EXCEPT ![sess].pc = "done",
                                ![sess].removed = calls[th[sess].idx]]
       ELSE /\ th' = [th EXCEPT ![sess].pc = "panic"]
            /\ UNCHANGED calls
    /\ last' = Op("removeCall.append", NoUri, 0, sess, 0, "")
    /\ UNCHANGED <<aors, known, origin, sent, nev, lock, rt, inv, mem>>

\* No InviteReceived handler is running statement by statement.
NoHandler ==
    [pc |-> "idle", sess |-> NoSession, ref |-> NoUri, orphan |-> FALSE,
     snap |-> {}, start |-> {}, seen |-> {}]

\* b.calls before the first append: the nil slice.
NilSlice == [arrs |-> <<>>, arr |-> 0, len |-> 0]

\* ---------------------------------------------------------- specification
EmptyReg == [x \in {} |-> EmptyMap]

Init ==
    /\ aors = EmptyReg
    /\ calls = <<>>
    /\ known = {}
    /\ origin = <<>>
    /\ sent = [s \in Sessions |-> <<>>]
    /\ th = EmptyMap
    /\ nev = 0
    /\ last = Op("init", NoUri, 0, NoSession, 0, "")
    /\ lock = 0
    /\ rt = [base |-> EmptyReg, callers |-> <<>>]
    /\ inv = NoHandler
    /\ mem = NilSlice

TerminalStates == {"Failure", "Canceled", "Terminated"}

Next ==
    \/ \E aor \in Uris, source \in Sources, expires \in -1..MaxExpires,
          agent \in BOOLEAN : handleRegister(aor, source, expires, agent)
    \/ \E source \in Sources : handleConnectionError(source)
    \/ \E sess \in ALegs, called \in Uris : InviteReceived(sess, called)
    \/ \E sess \in Sessions : ReInviteReceived(sess)
    \/ \E sess \in Sessions, state \in {"EarlyMedia", "Provisional"},
          code \in {180, 183} : Provisional(sess, state, code)
    \/ \E sess \in Sessions : Confirmed(sess)
    \/ \E sess \in Sessions, state \in TerminalStates : Terminal(sess, state)
    \/ \E sess \in Sessions : RemoveScan(sess)
    \/ \E sess \in Sessions : RemoveSplice(sess)

Spec == Init /\ [][Next]_vars

\* ------------------------------------------------- the registry on its own
\* One call of a registry method, the mutex held from its first statement to
\* its return.
RegAddAor(aor, instance) ==
    /\ \E o \in AddAor(aors, aor, instance) :
          /\ aors' = o.reg
          /\ last' = Op("AddAor", aor, instance.Source, NoSession, 0, o.ret)
    /\ UNCHANGED <<calls, known, origin, sent, th, nev, lock, rt, inv, mem>>

RegRemoveAor(aor) ==
    /\ \E o \in RemoveAor(aors, aor) :
          /\ aors' = o.reg
          /\ last' = Op("RemoveAor", aor, 0, NoSession, 0, o.ret)
    /\ UNCHANGED <<calls, known, origin, sent, th, nev, lock, rt, inv, mem>>

RegUpdateContact(aor, instance) ==
    /\ \E o \in UpdateContact(aors, aor, instance) :
          /\ aors' = o.reg
          /\ last' = Op("UpdateContact", aor, instance.Source, NoSession, 0, o.ret)
    /\ UNCHANGED <<calls, known, origin, sent, th, nev, lock, rt, inv, mem>>

RegRemoveContact(aor, instance) ==
    /\ \E o \in RemoveContact(aors, aor, instance) :
          /\ aors' = o.reg
          /\ last' = Op("RemoveContact", aor, instance.Source, NoSession, 0, o.ret)
    /\ UNCHANGED <<calls, known, origin, sent, th, nev, lock, rt, inv, mem>>

RegHandleConnectionError(source) ==
    /\ \E o \in HandleConnectionError(aors, source) :
          /\ aors' = o.reg
          /\ last' = Op("HandleConnectionError", NoUri, source, NoSession, 0,
                        IF o.ret THEN "true" ELSE "false")
    /\ UNCHANGED <<calls, known, origin, sent, th, nev, lock, rt, inv, mem>>

RegGetContacts(aor) ==
    /\ \E g \in GetContacts(aors, aor) :
          last' = Op("GetContacts", g.key, 0, NoSession, 0,
                     IF g.found THEN "true" ELSE "false")
    /\ UNCHANGED <<aors, calls, known, origin, sent, th, nev, lock, rt, inv, mem>>

NextRegistry ==
    \/ \E aor \in Uris, instance \in Instances : RegAddAor(aor, instance)
    \/ \E aor \in Uris : RegRemoveAor(aor)
    \/ \E aor \in Uris, instance \in Instances : RegUpdateContact(aor, instance)
    \/ \E aor \in Uris, instance \in Instances : RegRemoveContact(aor, instance)
    \/ \E source \in RegSources : RegHandleConnectionError(source)
    \/ \E aor \in Uris : RegGetContacts(aor)

SpecRegistry == Init /\ [][NextRegistry]_vars

\* --------------------------------------------- the registry under concurrency
\* Callers of AddAor and RemoveContact, each on its own goroutine, run one
\* statement at a time. A caller's `ref` is its local `instances`: the key of
\* the entry findInstances returned (NoUri for nil). When another caller
\* deletes or replaces that entry while the reference is held, the reference
\* keeps pointing at the old map, now outside the registry: `orphan` is set
\* and `omap` holds that map.
Callers == 1..NumCallers

Caller(op, aor, source) ==
    [op |-> op, aor |-> aor, source |-> source, pc |-> "start",
     ref |-> NoUri, orphan |-> FALSE, omap |-> EmptyMap]

Cs == rt.callers

SetCaller(p, c) == [rt EXCEPT !.callers[p] = c]

\* The callers after some caller removed or replaced the entry under key k:
\* every reference to that entry's map is left pointing outside the registry.
Orphaned(cs, k, m) ==
    [q \in DOMAIN cs |->
        IF cs[q].ref = k /\ ~cs[q].orphan
        THEN [cs[q] EXCEPT !.orphan = TRUE, !.omap = m]
        ELSE cs[q]]

\* MutexFree as it would be if the methods did not take the mutex.
MutexIgnored == TRUE

\* mr.mutex.Lock() returns only when no caller holds the mutex.
MutexFree == lock = 0

\* The callers are started together on the registry as it is: any calls of
\* AddAor and RemoveContact for AORs with one user part.
Start ==
    /\ \A p \in DOMAIN Cs : Cs[p].pc = "done"
    /\ \E u \in UserParts :
       \E cs \in [Callers -> {Caller(op, aor, source) :
                                 op \in {"AddAor", "RemoveContact"},
                                 aor \in {x \in Uris : x.user = u},
                                 source \in Sources}] :
          rt' = [base |-> aors, callers |-> cs]
    /\ last' = Op("start", NoUri, 0, NoSession, 0, "")
    /\ UNCHANGED <<aors, calls, known, origin, sent, th, nev, lock, inv, mem>>

\* mr.mutex.Lock().
Lock(p) ==
    /\ p \in DOMAIN Cs
    /\ Cs[p].pc = "start"
    /\ MutexFree
    /\ lock' = p
    /\ rt' = SetCaller(p, [Cs[p] EXCEPT !.pc = "find"])
    /\ last' = Op("Lock", NoUri, 0, NoSession, 0, "")
    /\ UNCHANGED <<aors, calls, known, origin, sent, th, nev, inv, mem>>

\* instances, err := findInstances(mr.aors, aor), in AddAor and RemoveContact.
Find(p) ==
    /\ p \in DOMAIN Cs
    /\ Cs[p].pc = "find"
    /\ IF findInstances(aors, Cs[p].aor) = {}
       THEN rt' = SetCaller(p, [Cs[p] EXCEPT
                      !.pc = IF Cs[p].op = "AddAor" THEN "make" ELSE "unlock"])
       ELSE \E k \in findInstances(aors, Cs[p].aor) :
               rt' = SetCaller(p, [Cs[p] EXCEPT
                      !.ref = k,
                      !.pc = IF Cs[p].op = "AddAor" THEN "put" ELSE "delete"])
    /\ last' = Op("findInstances", Cs[p].aor, 0, NoSession, 0, "")
    /\ UNCHANGED <<aors, calls, known, origin, sent, th, nev, lock, inv, mem>>

\* AddAor: (*instances)[instance.Source] = instance.
Put(p) ==
    /\ p \in DOMAIN Cs
    /\ Cs[p].pc = "put"
    /\ LET inst == [Source |-> Cs[p].source, RegExpires |-> 1]
       IN  IF Cs[p].orphan
           THEN /\ rt' = SetCaller(p, [Cs[p] EXCEPT
                            !.omap = MapPut(@, inst.Source, inst),
                            !.pc = "unlock"])
                /\ UNCHANGED aors
           ELSE /\ aors' = [aors EXCEPT ![Cs[p].ref] = MapPut(@, inst.Source, inst)]
                /\ rt' = SetCaller(p, [Cs[p] EXCEPT !.pc = "unlock"])
    /\ last' = Op("put", Cs[p].aor, Cs[p].source, NoSession, 0, "")
    /\ UNCHANGED <<calls, known, origin, sent, th, nev, lock, inv, mem>>

\* AddAor: mr.aors[aor] = make(map[string]*ContactInstance).
Make(p) ==
    /\ p \in DOMAIN Cs
    /\ Cs[p].pc = "make"
    /\ aors' = MapPut(aors, Cs[p].aor, EmptyMap)
    /\ rt' = [rt EXCEPT !.callers =
                 [(IF Cs[p].aor \in DOMAIN aors
                   THEN Orphaned(Cs, Cs[p].aor, aors[Cs[p].aor])
                   ELSE Cs) EXCEPT ![p].pc = "insert"]]
    /\ last' = Op("make", Cs[p].aor, 0, NoSession, 0, "")
    /\ UNCHANGED <<calls, known, origin, sent, th, nev, lock, inv, mem>>

\* AddAor: mr.aors[aor][instance.Source] = instance; an assignment to an entry
\* of the nil map panics when the key is no longer there.
Insert(p) ==
    /\ p \in DOMAIN Cs
    /\ Cs[p].pc = "insert"
    /\ LET inst == [Source |-> Cs[p].source, RegExpires |-> 1]
       IN  IF Cs[p].aor \in DOMAIN aors
           THEN /\ aors' = [aors EXCEPT ![Cs[p].aor] = MapPut(@, inst.Source, inst)]
                /\ rt' = SetCaller(p, [Cs[p] EXCEPT !.pc = "unlock"])
           ELSE /\ rt' = SetCaller(p, [Cs[p] EXCEPT !.pc = "panic"])
                /\ UNCHANGED aors
    /\ last' = Op("insert", Cs[p].aor, Cs[p].source, NoSession, 0, "")
    /\ UNCHANGED <<calls, known, origin, sent, th, nev, lock, inv, mem>>

\* RemoveContact: delete(*instances, instance.Source).
Delete(p) ==
    /\ p \in DOMAIN Cs
    /\ Cs[p].pc = "delete"
    /\ IF Cs[p].orphan
       THEN /\ rt' = SetCaller(p, [Cs[p] EXCEPT
                        !.omap = MapDelete(@, Cs[p].source), !.pc = "check"])
            /\ UNCHANGED aors
       ELSE /\ aors' = [aors EXCEPT ![Cs[p].ref] = MapDelete(@, Cs[p].source)]
            /\ rt' = SetCaller(p, [Cs[p] EXCEPT !.pc = "check"])
    /\ last' = Op("delete", Cs[p].aor, Cs[p].source, NoSession, 0, "")
    /\ UNCHANGED <<calls, known, origin, sent, th, nev, lock, inv, mem>>

\* RemoveContact: if len(*instances) == 0, the range that deletes the key
\* that Equals(aor).
Check(p) ==
    /\ p \in DOMAIN Cs
    /\ Cs[p].pc = "check"
    /\ LET m == IF Cs[p].orphan THEN Cs[p].omap ELSE aors[Cs[p].ref]
           ks == IF DOMAIN m = {} THEN EmptiedKey(aors, Cs[p].aor) ELSE {}
       IN  /\ aors' = [x \in DOMAIN aors \ ks |-> aors[x]]
           /\ rt' = [rt EXCEPT !.callers =
                        [(IF ks = {} THEN Cs
                          ELSE Orphaned(Cs, Cs[p].aor, aors[Cs[p].aor]))
                         EXCEPT ![p].pc = "unlock"]]
    /\ last' = Op("check", Cs[p].aor, Cs[p].source, NoSession, 0, "")
    /\ UNCHANGED <<calls, known, origin, sent, th, nev, lock, inv, mem>>

\* The deferred mr.mutex.Unlock() and the return.
Unlock(p) ==
    /\ p \in DOMAIN Cs
    /\ Cs[p].pc = "unlock"
    /\ lock' = 0
    /\ rt' = SetCaller(p, [Cs[p] EXCEPT !.pc = "done"])
    /\ last' = Op("Unlock", NoUri, 0, NoSession, 0, "")
    /\ UNCHANGED <<aors, calls, known, origin, sent, th, nev, inv, mem>>

NextLin ==
    \/ Start
    \/ \E p \in Callers : Lock(p)
    \/ \E p \in Callers : Find(p)
    \/ \E p \in Callers : Put(p)
    \/ \E p \in Callers : Make(p)
    \/ \E p \in Callers : Insert(p)
    \/ \E p \in Callers : Delete(p)
    \/ \E p \in Callers : Check(p)
    \/ \E p \in Callers : Unlock(p)

SpecLin == Init /\ [][NextLin]_vars

\* ------------------------------------- the InviteReceived handler, by statement
\* The InviteReceived handler run one statement at a time, while REGISTER
\* requests and connection errors are handled on their own goroutines. Each
\* registry method holds the mutex from its first statement to its return, so
\* it is one step; the handler holds it inside GetContacts only.

\* The map the handler's `contacts` points at, as it is now.
Contacts ==
    IF inv.orphan \/ inv.ref \notin DOMAIN aors THEN EmptyMap ELSE aors[inv.ref]

\* The sources the ua.Invite calls made for the handler's session went to.
Originated(og) == {og[j].source : j \in {i \in 1..Len(og) : og[i].src = inv.sess}}

\* The handler up to the return of GetContacts(called): `snap` keeps the
\* sources registered at that instant. When nothing is found the handler
\* rejects the A-leg with 404 and returns.
InviteGet(sess, called) ==
    /\ ~Panicked
    /\ inv.pc \in {"idle", "done"}
    /\ sess \in ALegs \ known
    /\ sess = ALeg(Cardinality(known) + 1)
    /\ \E g \in GetContacts(aors, called) :
          IF g.found
          THEN /\ inv' = [NoHandler EXCEPT !.pc = "trying", !.sess = sess,
                                           !.ref = g.key,
                                           !.snap = DOMAIN aors[g.key]]
               /\ sent' = sent
          ELSE /\ inv' = [NoHandler EXCEPT !.pc = "done", !.sess = sess]
               /\ sent' = [sent EXCEPT ![sess] = Append(@, NotFound)]
    /\ known' = known \cup {sess}
    /\ last' = Op("InviteReceived", called, 0, sess, 0, "")
    /\ UNCHANGED <<aors, calls, origin, th, nev, lock, rt, mem>>

\* sess.Provisional(100, "Trying"), and the range over *contacts begins: the
\* entries in the map now are those the range produces unless they are
\* deleted first.
InviteTrying ==
    /\ ~Panicked
    /\ inv.pc = "trying"
    /\ sent' = [sent EXCEPT ![inv.sess] =
                   Append(@, Msg("Provisional", 100, NoSession))]
    /\ inv' = [inv EXCEPT !.pc = "range", !.start = DOMAIN Contacts]
    /\ last' = Op("Provisional", NoUri, 0, inv.sess, 100, "")
    /\ UNCHANGED <<aors, calls, known, origin, th, nev, lock, rt, mem>>

\* One turn of the range: it produces an entry that is in the map now and
\* was not produced yet, and doInvite is called for it; ua.Invite succeeds
\* (ok) or fails.
InviteNext(source, ok) ==
    /\ ~Panicked
    /\ inv.pc = "range"
    /\ source \in DOMAIN Contacts \ inv.seen
    /\ Len(origin) < MaxOrig
    /\ origin' = Append(origin, [src |-> inv.sess, source |-> source, ok |-> ok])
    /\ calls' = IF ok
                THEN Append(calls, [src |-> inv.sess, dest |-> BLeg(Len(origin'))])
                ELSE calls
    /\ inv' = [inv EXCEPT !.seen = @ \cup {source}]
    /\ last' = Op("doInvite", NoUri, source, inv.sess, 0, IF ok THEN "nil" ELSE "err")
    /\ UNCHANGED <<aors, known, sent, th, nev, lock, rt, mem>>

\* The range ends and the handler returns: every entry that was in the map
\* when the range began and is still there was produced; an entry created
\* since may have been skipped.
InviteReturn ==
    /\ ~Panicked
    /\ inv.pc = "range"
    /\ (inv.start \cap DOMAIN Contacts) \ inv.seen = {}
    /\ inv' = [inv EXCEPT !.pc = "done"]
    /\ last' = Op("return", NoUri, 0, inv.sess, 0, "")
    /\ UNCHANGED <<aors, calls, known, origin, sent, th, nev, lock, rt, mem>>

\* MaxConc bounds the REGISTER requests and connection errors handled before
\* and while the handler runs.
NextFork ==
    \/ /\ nev < MaxConc
       /\ \E aor \in Uris, source \in Sources, expires \in -1..MaxExpires,
             agent \in BOOLEAN : handleRegister(aor, source, expires, agent)
    \/ /\ nev < MaxConc
       /\ \E source \in Sources : handleConnectionError(source)
    \/ \E sess \in ALegs, called \in Uris : InviteGet(sess, called)
    \/ InviteTrying
    \/ \E source \in Sources, ok \in BOOLEAN : InviteNext(source, ok)
    \/ InviteReturn

SpecFork == Init /\ [][NextFork]_vars

\* ------------------------------------------------- b.calls as a Go slice
\* The callbacks that append to b.calls and remove from it run on their own
\* goroutines and take no lock. Here b.calls is the slice it is in memory: a
\* header (array, length) over an array whose length is the capacity; every
\* load and store of the header and every write of the array is a step of its
\* own, so a callback works with the header it loaded, whatever the field
\* holds by the time it writes. `calls` stays what a reader of b.calls sees.

\* cap() of array a of memory m, 0 for the nil slice.
Cap(m, a) == IF a = 0 THEN 0 ELSE Len(m.arrs[a])

\* The elements of the slice the field holds.
Visible(m) == IF m.arr = 0 THEN <<>> ELSE SubSeq(m.arrs[m.arr], 1, m.len)

\* The capacity append gives the array it allocates when the old one, of
\* capacity c, is full.
NewCap(c) == IF c = 0 THEN 1 ELSE 2 * c

\* doInvite(instance) for A-leg sess, up to the load of b.calls in
\* append(b.calls, &B2BCall{src: sess, dest: dest}): ua.Invite has returned
\* dest, and the callback keeps the header it loaded. One handler runs the
\* appends for its A-leg one after the other.
AppendLoad(sess, source) ==
    /\ ~Panicked
    /\ Len(origin) < MaxOrig
    /\ sess \in known \/ sess = ALeg(Cardinality(known) + 1)
    /\ \A d \in DOMAIN th : th[d].pc = "append" => th[d].call.src # sess
    /\ origin' = Append(origin, [src |-> sess, source |-> source, ok |-> TRUE])
    /\ known' = known \cup {sess}
    /\ th' = MapPut(th, BLeg(Len(origin')),
                    [pc |-> "append",
                     call |-> [src |-> sess, dest |-> BLeg(Len(origin'))],
                     idx |-> 0, removed |-> NoCall,
                     arr |-> mem.arr, len |-> mem.len])
    /\ last' = Op("append.load", NoUri, source, sess, 0, "")
    /\ UNCHANGED <<aors, calls, sent, nev, lock, rt, inv, mem>>

\* The rest of b.calls = append(b.calls, call): with room in the array of the
\* header loaded, the call is written after its last element; without, a new
\* array is allocated and the elements copied. The header over the result is
\* stored in b.calls.
AppendStore(dest) ==
    /\ ~Panicked
    /\ dest \in DOMAIN th
    /\ th[dest].pc = "append"
    /\ LET h == th[dest]
           grown == SubSeq(mem.arrs[h.arr], 1, h.len) \o <<h.call>>
                    \o [i \in 1..(NewCap(Cap(mem, h.arr)) - h.len - 1) |-> NoCall]
       IN  mem' = IF h.len < Cap(mem, h.arr)
                  THEN [arrs |-> [mem.arrs EXCEPT ![h.arr][h.len + 1] = h.call],
                        arr |-> h.arr, len |-> h.len + 1]
                  ELSE [arrs |-> Append(mem.arrs,
                                   IF h.arr = 0 THEN <<h.call>> ELSE grown),
                        arr |-> Len(mem.arrs) + 1, len |-> h.len + 1]
    /\ calls' = Visible(mem')
    /\ th' = [th EXCEPT ![dest] = Idle]
    /\ last' = Op("append.store", NoUri, 0, dest, 0, "")
    /\ UNCHANGED <<aors, known, origin, sent, nev, lock, rt, inv>>

\* removeCall(sess) after its range found idx: the operands b.calls[:idx] and
\* b.calls[idx+1:] are evaluated on the header loaded now; b.calls[idx+1:]
\* panics when the slice has fewer than idx+1 elements (idx+1 there is idx
\* here, counted from 1).
RemoveLoad(sess) ==
    /\ ~Panicked
    /\ Th(sess).pc = "splice"
    /\ th' = MapPut(th, sess,
                    IF th[sess].idx <= mem.len
                    THEN [pc |-> "move", call |-> th[sess].call,
                          idx |-> th[sess].idx, removed |-> NoCall,
                          arr |-> mem.arr, len |-> mem.len]
                    ELSE [th[sess] EXCEPT !.pc = "panic"])
    /\ last' = Op("removeCall.load", NoUri, 0, sess, 0, "")
    /\ UNCHANGED <<aors, calls, known, origin, sent, nev, lock, rt, inv, mem>>

\* append(b.calls[:idx], b.calls[idx+1:]...) and the store of the result: the
\* elements after idx of the slice loaded are moved down by one inside its
\* array, as they are now, and the header with one element less is stored.
RemoveMove(sess) ==
    /\ ~Panicked
    /\ Th(sess).pc = "move"
    /\ LET h == th[sess]
           old == mem.arrs[h.arr]
       IN  /\ mem' = [arrs |-> [mem.arrs EXCEPT ![h.arr] =
                                   [i \in 1..Len(old) |->
                                       IF h.idx <= i /\ i <= h.len - 1
                                       THEN old[i + 1] ELSE old[i]]],
                      arr |-> h.arr, len |-> h.len - 1]
           /\ th' = MapPut(th, sess, [pc |-> "done", call |-> h.call,
                                       idx |-> h.idx, removed |-> old[h.idx]])
    /\ calls' = Visible(mem')
    /\ last' = Op("removeCall.store", NoUri, 0, sess, 0, "")
    /\ UNCHANGED <<aors, known, origin, sent, nev, lock, rt, inv>>

\* MaxTerm bounds the terminal events delivered.
NextCalls ==
    \/ \E sess \in ALegs, source \in Sources : AppendLoad(sess, source)
    \/ \E dest \in BLegs : AppendStore(dest)
    \/ /\ nev < MaxTerm
       /\ \E sess \in Sessions, state \in TerminalStates : Terminal(sess, state)
    \/ \E sess \in Sessions : RemoveScan(sess)
    \/ \E sess \in Sessions : RemoveLoad(sess)
    \/ \E sess \in Sessions : RemoveMove(sess)

SpecCalls == Init /\ [][NextCalls]_vars

\* ------------------------------------------------------------ registry claims
\* C1. Every AOR entry in the registry has at least one contact instance,
\* after any sequence of AddAor, RemoveAor, UpdateContact, RemoveContact and
\* HandleConnectionError calls.
C1_NoEmptyEntry == \A k \in DOMAIN aors : DOMAIN aors[k] # {}

\* C2. After HandleConnectionError(addr) returns no entry holds an instance
\* whose source is addr, and every entry the call left without instances is
\* gone.
C2_PurgeComplete ==
    [][\A source \in RegSources :
          RegHandleConnectionError(source) =>
             /\ \A k \in DOMAIN aors' : source \notin DOMAIN aors'[k]
             /\ \A k \in DOMAIN aors :
                   DOMAIN aors[k] = {source} => k \notin DOMAIN aors']_vars

\* C3. HandleConnectionError(addr) called twice in a row: the second call
\* changes nothing in the registry and returns false.
C3_PurgeIdempotent ==
    [][\A source \in RegSources :
          (/\ last.op = "HandleConnectionError"
           /\ last.src = source
           /\ RegHandleConnectionError(source))
          => (aors' = aors /\ last'.ret = "false")]_vars

\* C11. Multi-device registration. The registry has no entry for AOR a; a is
\* registered from source A, then from a different source B, nothing else in
\* between: GetContacts(a) returns found with exactly the instances keyed by
\* A and B. The step is the second AddAor; the first is the operation that
\* acted last. AddAor deletes no key, so after the first AddAor either a is
\* still no key, or a is the key AddAor made, holding the instance from A
\* alone.
C11_MultiDevice ==
    [][\A a \in Uris, A \in RegSources, inst \in Instances :
          (/\ last.op = "AddAor" /\ last.aor = a /\ last.src = A
           /\ a \in DOMAIN aors => DOMAIN aors[a] = {A}
           /\ inst.Source # A
           /\ inst.RegExpires > 0
           /\ RegAddAor(a, inst))
          => \A g \in GetContacts(aors', a) :
                /\ g.found
                /\ DOMAIN aors'[g.key] = {A, inst.Source}]_vars

\* C12. AddAor matches by full URI: when a key equals aor the instance is put
\* under its source in that entry and no other entry changes; otherwise a new
\* entry keyed by aor holds this instance alone. The call returns nil.
C12_AddByFullUri ==
    [][\A aor \in Uris, instance \in Instances :
          RegAddAor(aor, instance)
          => /\ last'.ret = "nil"
             /\ aors' = IF aor \in DOMAIN aors
                        THEN [aors EXCEPT ![aor] =
                                 MapPut(@, instance.Source, instance)]
                        ELSE MapPut(aors, aor,
                                 MapPut(EmptyMap, instance.Source, instance))]_vars

\* C19. No two entries of the registry have the same user part, so
\* findInstances has at most one entry to return, whatever the order of the
\* range.
C19_UniqueUserPart ==
    /\ \A k1, k2 \in DOMAIN aors : k1.user = k2.user => k1 = k2
    /\ \A aor \in Uris : Cardinality(findInstances(aors, aor)) <= 1

\* A state C19 is about: AddAor for an AOR whose user part was registered
\* under another host has just put its instance into that entry.
C19_Witness ==
    /\ last.op = "AddAor"
    /\ last.aor \notin DOMAIN aors
    /\ \E k \in DOMAIN aors :
          k.user = last.aor.user /\ last.src \in DOMAIN aors[k]

\* -------------------------------------------------------------- bridge claims
\* The messages the step appended to what was sent on leg s.
NewlySent(s) == SubSeq(sent'[s], Len(sent[s]) + 1, Len(sent'[s]))

\* The calls of ua.Invite the step made.
NewOrigins == (Len(origin) + 1)..Len(origin')

Trying == Msg("Provisional", 100, NoSession)

\* C4. InviteReceived on a new A-leg whose destination has N >= 1 contact
\* instances, every origination succeeding: 100 Trying is sent on the A-leg
\* and nothing else, N sessions are originated, one per contact instance, and
\* N calls are appended, each from the A-leg to its own new B-leg.
C4_ForkPerContact ==
    [][\A sess \in ALegs, called \in Uris :
          \A k \in findInstances(aors, called) :
             (/\ InviteReceived(sess, called)
              /\ DOMAIN aors[k] # {}
              /\ \A j \in NewOrigins : origin'[j].ok)
             => LET N == Cardinality(DOMAIN aors[k])
                IN  /\ NewlySent(sess) = <<Trying>>
                    /\ \A s \in Sessions \ {sess} : sent'[s] = sent[s]
                    /\ Len(origin') = Len(origin) + N
                    /\ SubSeq(origin', 1, Len(origin)) = origin
                    /\ {origin'[j].source : j \in NewOrigins} = DOMAIN aors[k]
                    /\ \A j \in NewOrigins : origin'[j].src = sess
                    /\ Len(calls') = Len(calls) + N
                    /\ SubSeq(calls', 1, Len(calls)) = calls
                    /\ \A i \in (Len(calls) + 1)..Len(calls') :
                          calls'[i].src = sess
                    /\ {calls'[i].dest : i \in (Len(calls) + 1)..Len(calls')}
                          = {BLeg(j) : j \in NewOrigins}]_vars

\* A state C4 is about: the call-setup just handled forked to two contacts.
C4_Witness ==
    /\ last.op = "InviteReceived"
    /\ Len(origin) = 2 /\ origin[1].ok /\ origin[2].ok
    /\ origin[1].source # origin[2].source
    /\ Len(calls) = 2
    /\ calls[1].src = last.sess /\ calls[2].src = last.sess
    /\ calls[1].dest # calls[2].dest
    /\ sent[last.sess] = <<Trying>>

\* C5. InviteReceived for a destination with no contact instance: 404 is sent
\* on the A-leg, no session is originated, the active calls do not change.
C5_NoContactRejected ==
    [][\A sess \in ALegs, called \in Uris :
          (/\ InviteReceived(sess, called)
           /\ \A k \in findInstances(aors, called) : DOMAIN aors[k] = {})
          => /\ NewlySent(sess) = <<NotFound>>
             /\ origin' = origin
             /\ calls' = calls]_vars

\* How often the bridge called End() on leg s because of an event on leg by.
RECURSIVE EndCount(_, _)
EndCount(log, by) ==
    IF log = <<>> THEN 0
    ELSE (IF Head(log) = Msg("End", 0, by) THEN 1 ELSE 0) + EndCount(Tail(log), by)

\* The callbacks that have returned.
Returned == {s \in DOMAIN th : th[s].pc = "done"}

\* Two callbacks that found the same call, one for each of its legs.
Raced(s1, s2) ==
    /\ s1 # s2
    /\ th[s1].call # NoCall
    /\ th[s1].call = th[s2].call
    /\ {s1, s2} = {th[s1].call.src, th[s1].call.dest}

\* C6. A terminal event on the B-leg of an active call ends the A-leg, and
\* the callbacks for the two legs of one call, run concurrently, remove one
\* call between them.
C6_OneRemoval ==
    /\ \A s \in DOMAIN th :
          (th[s].call # NoCall /\ th[s].call.dest = s)
          => EndCount(sent[th[s].call.src], s) >= 1
    /\ \A s1, s2 \in Returned :
          Raced(s1, s2)
          => Cardinality({s \in {s1, s2} : th[s].removed # NoCall}) = 1

\* C7. End() is called for one call at most once in all, and no two callbacks
\* find the same call.
C7_OneTeardown ==
    /\ \A a \in ALegs, b \in BLegs :
          EndCount(sent[a], b) + EndCount(sent[b], a) <= 1
    /\ \A s1, s2 \in DOMAIN th : ~Raced(s1, s2)

\* C8. A terminal event on a leg: the other leg of every active call with
\* that leg is sent End(), and once the callback has returned no active call
\* has that leg.
C8_TornDown ==
    [][\A sess \in Sessions :
          /\ (\E state \in TerminalStates : Terminal(sess, state))
             => \A i \in Matching(calls, sess) :
                   Msg("End", 0, sess) \in
                      {NewlySent(OtherLeg(calls[i], sess))[n] :
                         n \in 1..Len(NewlySent(OtherLeg(calls[i], sess)))}
          /\ (sess \in DOMAIN th' /\ Th(sess).pc # "done" /\ th'[sess].pc = "done")
             => Matching(calls', sess) = {}]_vars

\* C9. Confirmed on a session that is the destination of an active call: that
\* session's description is applied to the call's A-leg as the answer and the
\* A-leg is accepted with 200. Confirmed on any other session: nothing is
\* sent on any leg. The active calls do not change either way.
C9_ConfirmedRelay ==
    [][\A sess \in Sessions :
          Confirmed(sess)
          => /\ calls' = calls
             /\ \A s \in Sessions :
                   NewlySent(s) =
                      IF \E i \in 1..Len(calls) :
                            calls[i].dest = sess /\ calls[i].src = s
                      THEN <<Msg("ProvideAnswer", 0, RemoteSdp(sess)),
                             Msg("Accept", 200, NoSession)>>
                      ELSE <<>>
             /\ \A s \in Sessions :
                   SubSeq(sent'[s], 1, Len(sent[s])) = sent[s]]_vars

\* A state C9 is about: an A-leg forked to two B-legs, one of them confirmed
\* and the A-leg answered with its description and accepted.
C9_Witness ==
    /\ last.op = "Confirmed"
    /\ Len(calls) = 2 /\ calls[1].src = calls[2].src
    /\ \E i \in 1..2 :
          /\ calls[i].dest = last.sess
          /\ sent[calls[i].src] =
                <<Trying, Msg("ProvideAnswer", 0, RemoteSdp(last.sess)),
                  Msg("Accept", 200, NoSession)>>

C14_FailureIsolated ==
    [][\A sess \in ALegs, called \in Uris :
          \A k \in findInstances(aors, called) :
             (/\ InviteReceived(sess, called)
              /\ Cardinality(DOMAIN aors[k]) >= 2)
             => LET New == (Len(calls) + 1)..Len(calls')
                    Oks == {j \in NewOrigins : origin'[j].ok}
                IN  /\ Len(origin') = Len(origin) + Cardinality(DOMAIN aors[k])
                    /\ {origin'[j].source : j \in NewOrigins} = DOMAIN aors[k]
                    /\ Len(calls') = Len(calls) + Cardinality(Oks)
                    /\ SubSeq(calls', 1, Len(calls)) = calls
                    /\ \A i \in New : calls'[i].src = sess
                    /\ {calls'[i].dest : i \in New} = {BLeg(j) : j \in Oks}
                    /\ NewlySent(sess) = <<Trying>>]_vars

\* A state C14 is about: of two contacts the first origination failed and the
\* second succeeded.
C14_Witness ==
    /\ last.op = "InviteReceived"
    /\ Len(origin) = 2 /\ ~origin[1].ok /\ origin[2].ok
    /\ calls = <<[src |-> last.sess, dest |-> BLeg(2)]>>
    /\ sent[last.sess] = <<Trying>>

\* A leg state-change callback for sess, any state but InviteReceived.
LegEvent(sess) ==
    \/ ReInviteReceived(sess)
    \/ \E state \in {"EarlyMedia", "Provisional"}, code \in {180, 183} :
          Provisional(sess, state, code)
    \/ Confirmed(sess)
    \/ \E state \in {"Failure", "Canceled", "Terminated"} : Terminal(sess, state)

\* C15. No handler panics: every REGISTER, with or without Expires and
\* User-Agent headers, and every leg callback returns; a callback for a
\* session of no active call leaves the registry and the active calls as
\* they were.
C15_NoPanic ==
    [][/\ ~Panicked'
       /\ \A sess \in Sessions :
             (LegEvent(sess) /\ Matching(calls, sess) = {})
             => (aors' = aors /\ calls' = calls)]_vars

\* C16. EarlyMedia or Provisional, with status code `code`, on a session that
\* is the destination of an active call: that session's description is
\* applied to the call's A-leg as the answer and a provisional response with
\* `code` is sent on the A-leg. On any other session: nothing is sent on any
\* leg. The active calls do not change either way.
C16_ProvisionalRelay ==
    [][\A sess \in Sessions, state \in {"EarlyMedia", "Provisional"},
          code \in {180, 183} :
          Provisional(sess, state, code)
          => /\ calls' = calls
             /\ \A s \in Sessions :
                   NewlySent(s) =
                      IF \E i \in 1..Len(calls) :
                            calls[i].dest = sess /\ calls[i].src = s
                      THEN <<Msg("ProvideAnswer", 0, RemoteSdp(sess)),
                             Msg("Provisional", code, NoSession)>>
                      ELSE <<>>
             /\ \A s \in Sessions :
                   SubSeq(sent'[s], 1, Len(sent[s])) = sent[s]]_vars

\* A state C16 is about: a B-leg of a forked A-leg reported 180 or 183 and the
\* A-leg was given its description and the same code.
C16_Witness ==
    /\ last.op \in {"EarlyMedia", "Provisional"}
    /\ Len(calls) = 2 /\ calls[1].src = calls[2].src
    /\ \E i \in 1..2 :
          /\ calls[i].dest = last.sess
          /\ sent[calls[i].src] =
                <<Trying, Msg("ProvideAnswer", 0, RemoteSdp(last.sess)),
                  Msg("Provisional", last.code, NoSession)>>

\* The B-legs whose description was applied to A-leg a as the answer and
\* followed by Accept(200).
AcceptedFor(a) ==
    {b \in BLegs :
        \E i \in 1..(Len(sent[a]) - 1) :
           /\ sent[a][i] = Msg("ProvideAnswer", 0, RemoteSdp(b))
           /\ sent[a][i + 1] = Msg("Accept", 200, NoSession)}

\* C17. An A-leg is answered and accepted for one B-leg at most: once one
\* B-leg was confirmed, Confirmed on another B-leg of the same A-leg does not
\* answer or accept the A-leg again.
C17_SingleFinalAnswer == \A a \in ALegs : Cardinality(AcceptedFor(a)) <= 1

\* C18. While the InviteReceived handler holds the map GetContacts returned
\* and ranges over it, no REGISTER or connection error handled concurrently
\* changes that map, and when the handler returns ua.Invite was called for
\* exactly the contacts registered at the instant GetContacts returned.
C18_ConsistentFork ==
    [][/\ inv.pc \in {"trying", "range"} => Contacts' = Contacts
       /\ (inv.pc = "range" /\ inv'.pc = "done")
          => Originated(origin') = inv.snap]_vars

\* C20. The active calls are well formed: the two legs of a call differ, a
\* B-leg is the destination of one call at most and the source of none, and
\* no session is the source of one call and the destination of another.
C20_WellFormed ==
    /\ \A i \in 1..Len(calls) :
          /\ calls[i].src # calls[i].dest
          /\ calls[i].src \notin BLegs
    /\ \A i, j \in 1..Len(calls) :
          /\ calls[i].dest = calls[j].dest => i = j
          /\ calls[i].src # calls[j].dest

\* ------------------------------------------------------- concurrency claim
\* The registries that running the calls cs[i], i in todo, one at a time in
\* some order can leave, starting from reg.
RECURSIVE Serial(_, _, _)
Serial(reg, cs, todo) ==
    IF todo = {} THEN {reg}
    ELSE UNION {
           UNION {Serial(o.reg, cs, todo \ {p}) :
                    o \in IF cs[p].op = "AddAor"
                          THEN AddAor(reg, cs[p].aor,
                                 [Source |-> cs[p].source, RegExpires |-> 1])
                          ELSE RemoveContact(reg, cs[p].aor,
                                 [Source |-> cs[p].source, RegExpires |-> 0])}
           : p \in todo}

\* C10. Concurrent AddAor and RemoveContact calls on one AOR: once all have
\* returned the registry is one that running them one at a time in some order
\* leaves, and at no time is more than one caller between the first and the
\* last statement of its method.
C10_Linearizable ==
    /\ Cardinality({p \in DOMAIN Cs : Cs[p].pc \notin {"start", "done"}}) <= 1
    /\ (DOMAIN Cs # {} /\ \A p \in DOMAIN Cs : Cs[p].pc = "done")
       => aors \in Serial(rt.base, Cs, DOMAIN Cs)

\* A state C10 is about: an AddAor and a RemoveContact on the same AOR, from
\* different sources, have both returned, and the entry was there before.
C10_Witness ==
    /\ DOMAIN Cs # {}
    /\ \A p \in DOMAIN Cs : Cs[p].pc = "done"
    /\ \E p, q \in DOMAIN Cs :
          /\ Cs[p].op = "AddAor" /\ Cs[q].op = "RemoveContact"
          /\ Cs[p].aor = Cs[q].aor /\ Cs[p].source # Cs[q].source
          /\ Cs[p].aor \in DOMAIN rt.base
          /\ DOMAIN rt.base[Cs[p].aor] = {Cs[q].source}

====
